---- MODULE Spec2Model ----
(***************************************************************************)
(* A model of the lane boundary tracking code of the notebook              *)
(* project_2_advanced_lane_finder: detectLane, fit_poly, windowHistograms, *)
(* searchAroundPoly, measure_curvature_real and process_image, together    *)
(* with the module-level variables left_fit and right_fit.                 *)
(*                                                                         *)
(* A binary frame is a record [W, H, on]: its width, its height and the    *)
(* set of its "on" pixels <<x, y>>.  Real numbers are exact fractions      *)
(* <<n, d>> in lowest terms with d > 0, so that equal values are equal     *)
(* tuples.                                                                 *)
(***************************************************************************)
EXTENDS Integers, Sequences, FiniteSets, TLC

VARIABLES
    left_fit,   \* module-level left_fit  (cells 23 and 25, process_image's global)
    right_fit,  \* module-level right_fit
    result,     \* what the last call did: a reset, or process_image's outcome
    specMode,   \* history: the mode the {COLD, WARM} machine of the design is in
    lastGood,   \* history: the fit pair of the last frame whose fit succeeded
    owner,      \* history: the session whose call last assigned left_fit/right_fit
    solo        \* history: per session, the fit pair a tracker of its own would hold

vars == <<left_fit, right_fit, result, specMode, lastGood, owner, solo>>

----------------------------------------------------------------------------
(* Exact fractions.                                                        *)

Abs(n) == IF n < 0 THEN -n ELSE n

RECURSIVE GCD(_, _)
GCD(a, b) == IF b = 0 THEN a ELSE GCD(b, a % b)

Rat(n, d) ==
    LET g == GCD(Abs(n), Abs(d))
        s == IF d < 0 THEN -1 ELSE 1
    IN  <<(s * n) \div g, (s * d) \div g>>

RInt(k) == <<k, 1>>

RAdd(p, q) ==
    LET g == GCD(p[2], q[2])
    IN  Rat(p[1] * (q[2] \div g) + q[1] * (p[2] \div g), (p[2] \div g) * q[2])

RNeg(p) == <<-p[1], p[2]>>

RSub(p, q) == RAdd(p, RNeg(q))

RMul(p, q) ==
    LET g1 == GCD(Abs(p[1]), q[2])
        g2 == GCD(Abs(q[1]), p[2])
    IN  Rat((p[1] \div g1) * (q[1] \div g2), (p[2] \div g2) * (q[2] \div g1))

RLess(p, q) == p[1] * q[2] < q[1] * p[2]

\* int(): the integer part, rounding toward zero
Trunc(p) == IF p[1] >= 0 THEN p[1] \div p[2] ELSE -((-p[1]) \div p[2])

----------------------------------------------------------------------------
(* Sums over pixel sets: Moment(pts, i, j) is the sum of x^i * y^j.        *)

Pow(b, e) == IF e = 0 THEN 1
             ELSE IF e = 1 THEN b
             ELSE IF e = 2 THEN b * b
             ELSE IF e = 3 THEN b * b * b
             ELSE b * b * b * b

RECURSIVE Moment(_, _, _)
Moment(pts, i, j) ==
    IF pts = {} THEN 0
    ELSE LET p == CHOOSE q \in pts : TRUE
         IN  Pow(p[1], i) * Pow(p[2], j) + Moment(pts \ {p}, i, j)

SetMax(S) == CHOOSE m \in S : \A n \in S : n <= m
SetMin(S) == CHOOSE m \in S : \A n \in S : m <= n

----------------------------------------------------------------------------
(* Hyperparameters of the two searches and the scale factors.              *)

nwindows == 9
margin == 80
minpix == 30
poly_margin == 60
ym_per_pix == Rat(30, 720)
xm_per_pix == Rat(37, 7000)

\* The stored value the notebook starts a sequence with: [0,0,0].
NoFit == <<RInt(0), RInt(0), RInt(0)>>

----------------------------------------------------------------------------
(* windowHistograms: the cold-start sliding window search.                 *)

\* histogram = np.sum(image[image.shape[0]//2:,:], axis=0)
Histogram(image) ==
    [x \in 0 .. image.W - 1 |->
        Cardinality({p \in image.on : p[1] = x /\ p[2] >= image.H \div 2})]

\* An argmax that keeps the last index of the maximum.
ArgMaxLast(histogram, lo, hi) ==
    LET m == SetMax({histogram[x] : x \in lo .. hi - 1})
    IN  SetMax({x \in lo .. hi - 1 : histogram[x] = m})

\* np.argmax(histogram[lo:hi]) + lo: the first index of the maximum
ArgMax(histogram, lo, hi) ==
    LET m == SetMax({histogram[x] : x \in lo .. hi - 1})
    IN  SetMin({x \in lo .. hi - 1 : histogram[x] = m})

\* np.int(np.mean(nonzerox[good_inds]))
MeanX(good) == Trunc(Rat(Moment(good, 1, 0), Cardinality(good)))

\* A recentring that also moves on exactly minpix pixels.
RecenterAtLeast(current, good) ==
    IF Cardinality(good) >= minpix THEN MeanX(good) ELSE current

\* if (len(good_inds) > minpix): x_current = np.int(np.mean(...))
Recenter(current, good) ==
    IF Cardinality(good) > minpix THEN MeanX(good) ELSE current

\* The loop over the windows, from the bottom band up; one record per window.
RECURSIVE SlideWindows(_, _, _, _)
SlideWindows(image, window, leftx_current, rightx_current) ==
    IF window = nwindows THEN << >>
    ELSE
      LET window_height == image.H \div nwindows
          win_y_low == image.H - (window + 1) * window_height
          win_y_high == image.H - window * window_height
          win_xleft_low == leftx_current - margin
          win_xleft_high == leftx_current + margin
          win_xright_low == rightx_current - margin
          win_xright_high == rightx_current + margin
          good_left_inds ==
              {p \in image.on : /\ p[2] < win_y_high /\ p[2] >= win_y_low
                                /\ p[1] < win_xleft_high /\ p[1] >= win_xleft_low}
          good_right_inds ==
              {p \in image.on : /\ p[2] < win_y_high /\ p[2] >= win_y_low
                                /\ p[1] < win_xright_high /\ p[1] >= win_xright_low}
          leftx_next == Recenter(leftx_current, good_left_inds)
          rightx_next == Recenter(rightx_current, good_right_inds)
      IN  << [window |-> window,
              win_y_low |-> win_y_low, win_y_high |-> win_y_high,
              leftx_current |-> leftx_current, rightx_current |-> rightx_current,
              good_left_inds |-> good_left_inds, good_right_inds |-> good_right_inds,
              leftx_next |-> leftx_next, rightx_next |-> rightx_next] >>
          \o SlideWindows(image, window + 1, leftx_next, rightx_next)

windowHistograms(image) ==
    LET histogram == Histogram(image)
        midpoint == image.W \div 2
        leftx_base == ArgMax(histogram, 0, midpoint)
        rightx_base == ArgMax(histogram, midpoint, image.W)
        windows == SlideWindows(image, 0, leftx_base, rightx_base)
    IN  [kind |-> "ok",
         left |-> UNION {windows[w].good_left_inds : w \in 1 .. nwindows},
         right |-> UNION {windows[w].good_right_inds : w \in 1 .. nwindows},
         leftx_base |-> leftx_base, rightx_base |-> rightx_base,
         windows |-> windows]

----------------------------------------------------------------------------
(* np.polyfit(y, x, 2) and fit_poly.                                       *)

Det3(a, b, c, d, e, f, g, h, i) ==
    a * (e * i - f * h) - b * (d * i - f * g) + c * (d * h - e * g)

DistinctY(pts) == {p[2] : p \in pts}

\* The coefficients <<a, b, c>> that minimise the sum of (a*y^2 + b*y + c - x)^2,
\* from the sums Sj of y^j and Tj of x*y^j.
LeastSquares(S0, S1, S2, S3, S4, T0, T1, T2) ==
    LET D == Det3(S4, S3, S2, S3, S2, S1, S2, S1, S0)
    IN  << Rat(Det3(T2, S3, S2, T1, S2, S1, T0, S1, S0), D),
           Rat(Det3(S4, T2, S2, S3, T1, S1, S2, T0, S0), D),
           Rat(Det3(S4, S3, T2, S3, S2, T1, S2, S1, T0), D) >>

\* np.polyfit(y, x, 2) of the points pts = {<<x, y>>}: x as a quadratic in y.
\*   - no point: numpy raises TypeError("expected non-empty vector for x");
\*   - fewer than 3 distinct y: the system is rank deficient; numpy warns
\*     (RankWarning) and returns the minimum-norm solution of its scaled
\*     system, whose value is not modelled;
\*   - otherwise the least-squares solution, which is unique: the solution of
\*     the normal equations, here by Cramer's rule.
PolyFit(pts) ==
    IF pts = {} THEN [kind |-> "TypeError"]
    ELSE IF Cardinality(DistinctY(pts)) < 3 THEN [kind |-> "RankWarning"]
    ELSE [kind |-> "ok",
          coef |-> LeastSquares(Moment(pts, 0, 0), Moment(pts, 0, 1), Moment(pts, 0, 2),
                                Moment(pts, 0, 3), Moment(pts, 0, 4),
                                Moment(pts, 1, 0), Moment(pts, 1, 1), Moment(pts, 1, 2))]

\* fit[0]*y**2 + fit[1]*y + fit[2]
PolyVal(fit, y) ==
    RAdd(RAdd(RMul(fit[1], RMul(y, y)), RMul(fit[2], y)), fit[3])

\* np.polyfit(y*ym_per_pix, x*xm_per_pix, 2): the least-squares solution for
\* the scaled points is the pixel-space one with a scaled by xm/ym^2, b by
\* xm/ym and c by xm.
ScaleFit(fit) ==
    LET ym_inv == <<ym_per_pix[2], ym_per_pix[1]>>
    IN  << RMul(fit[1], RMul(xm_per_pix, RMul(ym_inv, ym_inv))),
           RMul(fit[2], RMul(xm_per_pix, ym_inv)),
           RMul(fit[3], xm_per_pix) >>

\* fit_poly after its two pixel-space polyfit calls: a TypeError of the first
\* call leaves fit_poly before the second call is made.
FitLines(H, left_fit_px, right_fit_px) ==
        IF left_fit_px.kind = "TypeError"
        THEN [kind |-> "TypeError", left_kind |-> "TypeError", right_kind |-> "not called"]
        ELSE IF right_fit_px.kind = "TypeError"
        THEN [kind |-> "TypeError", left_kind |-> left_fit_px.kind,
              right_kind |-> "TypeError"]
        ELSE IF left_fit_px.kind = "RankWarning" \/ right_fit_px.kind = "RankWarning"
        THEN [kind |-> "RankWarning", left_kind |-> left_fit_px.kind,
              right_kind |-> right_fit_px.kind]
        ELSE [kind |-> "ok", left_kind |-> "ok", right_kind |-> "ok",
              left_coef |-> left_fit_px.coef,
              right_coef |-> right_fit_px.coef,
              left_fitx |-> [y \in 0 .. H - 1 |-> PolyVal(left_fit_px.coef, RInt(y))],
              right_fitx |-> [y \in 0 .. H - 1 |-> PolyVal(right_fit_px.coef, RInt(y))],
              left_fit_rw |-> ScaleFit(left_fit_px.coef),
              right_fit_rw |-> ScaleFit(right_fit_px.coef)]

\* fit_poly(img_shape, leftx, lefty, rightx, righty).  The two pixel-space
\* polyfit calls stand before the try block, so what they raise leaves
\* fit_poly; the except TypeError branch with its dummy quadratic guards
\* only the evaluation of the fitted polynomials, which cannot raise.
fit_poly(H, left, right) == FitLines(H, PolyFit(left), PolyFit(right))

----------------------------------------------------------------------------
(* measure_curvature_real.                                                 *)

\* One side's radius ((1 + (2*A*y + B)**2)**1.5) / |2*A|.  The numerator is
\* at least 1, so with A = 0.0 numpy's division gives inf (and a warning).
\* A least-squares solution that is 0 in exact arithmetic is 0.0 in floating
\* point when every x is 0 (the right-hand side is the zero vector);
\* otherwise rounding decides, and both outcomes are possible.  The value of
\* a finite radius is not modelled.
CurveRad(fit_rw, pts) ==
    IF fit_rw[1] # RInt(0) THEN {"finite"}
    ELSE IF \A p \in pts : p[1] = 0 THEN {"inf"}
    ELSE {"inf", "finite"}

\* np.int((left_curverad + right_curverad)//2): with an infinite radius the
\* floor division gives inf or nan, depending on the numpy release, and
\* np.int raises OverflowError or ValueError.
Curvature(left_rad, right_rad) ==
    IF left_rad = "inf" \/ right_rad = "inf"
    THEN [kind |-> "raised"]
    ELSE [kind |-> "finite"]

measure_curvature_real(left_fit_rw, right_fit_rw, left, right) ==
    { Curvature(l, r) : l \in CurveRad(left_fit_rw, left),
                        r \in CurveRad(right_fit_rw, right) }

IntConversionErrors == {"OverflowError", "ValueError"}

----------------------------------------------------------------------------
(* searchAroundPoly: the warm-start search.                                *)

\* The name binary_warped is bound nowhere in the notebook.
binary_warped == [bound |-> FALSE]

SearchAround(frame, lfit, rfit) ==
    LET Near(p, fit) ==
            LET centre == PolyVal(fit, RInt(p[2]))
            IN  /\ RLess(RInt(p[1]), RAdd(centre, RInt(poly_margin)))
                /\ RLess(RSub(centre, RInt(poly_margin)), RInt(p[1]))
    IN  [kind |-> "ok",
         left |-> {p \in frame.on : Near(p, lfit)},
         right |-> {p \in frame.on : Near(p, rfit)}]

\* nonzero = binary_warped.nonzero(): the pixels come from the global name,
\* not from the parameter image.
searchAroundPoly(image, lfit, rfit) ==
    IF ~binary_warped.bound THEN [kind |-> "NameError"]
    ELSE SearchAround(binary_warped.frame, lfit, rfit)

----------------------------------------------------------------------------
(* detectLane.                                                             *)

\* The x of the frame's centre that the offset is measured from.
center_x == 640

\* offset = (640 - (left_fitx[-1] + right_fitx[-1])/2)*xm_per_pix
Offset(left_fitx_bottom, right_fitx_bottom) ==
    RMul(RSub(RInt(center_x),
              RMul(RAdd(left_fitx_bottom, right_fitx_bottom), Rat(1, 2))),
         xm_per_pix)

\* if (left_fit == [0,0,0] and right_fit == [0,0,0])
FirstIteration(lfit, rfit) == lfit = NoFit /\ rfit = NoFit

\* detectLane from the curvature on: measure_curvature_real, the offset and
\* the return statement, given the search's result and fit_poly's.
Measure(image, lfit, rfit, mode, search, fit) ==
    LET Raised(exc) ==
            [status |-> "raised", exc |-> exc, mode |-> mode, search |-> search,
             fit |-> fit, offset |-> << >>]
        Returned(offset) ==
            [status |-> "returned", exc |-> "none", mode |-> mode, search |-> search,
             fit |-> fit, offset |-> offset, left_fit |-> lfit, right_fit |-> rfit]
    IN  IF search.kind # "ok" THEN {Raised(search.kind)}
        ELSE IF fit.kind = "TypeError" THEN {Raised("TypeError")}
        ELSE IF fit.kind = "RankWarning"
        THEN \* the coefficients numpy returns here are not modelled: the
             \* radius may be finite or not, and a side whose pixels all lie
             \* in row 0 gives polyfit's scaling a zero column norm.
             {Returned(<< >>)}
             \cup {Raised(e) : e \in IntConversionErrors}
             \cup (IF \E side \in {search.left, search.right} :
                          side # {} /\ DistinctY(side) = {0}
                   THEN {Raised("LinAlgError")} ELSE {})
        ELSE UNION {
               IF c.kind = "raised"
               THEN {Raised(e) : e \in IntConversionErrors}
               ELSE {Returned(<<Offset(fit.left_fitx[image.H - 1],
                                       fit.right_fitx[image.H - 1])>>)}
               : c \in measure_curvature_real(fit.left_fit_rw, fit.right_fit_rw,
                                              search.left, search.right) }

\* detectLane from the call of fit_poly on, given the search's result.
FitPixels(image, lfit, rfit, mode, search) ==
    Measure(image, lfit, rfit, mode, search,
            IF search.kind = "ok"
            THEN fit_poly(image.H, search.left, search.right)
            ELSE [kind |-> "none", left_kind |-> "not called",
                  right_kind |-> "not called"])

\* The outcomes of detectLane(image, left_fit, right_fit): it returns
\* (out_img, left_fit, right_fit, curvature, offset), where left_fit and
\* right_fit are its own parameters, or it raises.  The overlay out_img is
\* not modelled.  offset is a sequence: empty where no value is modelled.
detectLane(image, lfit, rfit) ==
    IF FirstIteration(lfit, rfit)
    THEN FitPixels(image, lfit, rfit, "COLD", windowHistograms(image))
    ELSE FitPixels(image, lfit, rfit, "WARM", searchAroundPoly(image, lfit, rfit))

----------------------------------------------------------------------------
(* The frames the model feeds to process_image.                            *)

DenseMax == 32

\* Two callers of process_image, each with a video sequence of its own.
Sessions == {1, 2}

\* The shifts of both lanes in the wide frames.
Shifts == {0, 50}

FrameHeight == nwindows

RowSets == {{8}, {4, 8}, {0, 4, 8}, {0, 2, 4, 6, 8}}

\* The pixels <<x0 + q*y^2, y>> of the rows: a vertical line (q = 0) or a
\* parabola (q = 1).
Line(x0, q, rows) == {<<x0 + q * y * y, y>> : y \in rows}

\* n pixels side by side in row 1, the last of them at x1.
DenseRow(x1, n) == {<<x, 1>> : x \in x1 - n + 1 .. x1}

Frame(W, on) == [W |-> W, H |-> FrameHeight, on |-> on]

\* Frames so narrow that both windows reach every column: no pixel, pixels
\* of column 0 only, and a parabola.
NarrowFrames ==
    {Frame(160, {})} \cup {Frame(160, Line(0, 0, rows)) : rows \in RowSets}
    \cup {Frame(160, Line(1, 1, {0, 1, 2}))}

MidLeft == {{}} \cup {Line(20, 0, rows) : rows \in RowSets}
           \cup {Line(20, 1, {0, 4, 8}), Line(20, 1, {0, 2, 4, 6, 8})}

MidRight == {{}, Line(150, 0, {0, 4, 8}), Line(120, 1, {0, 4, 8})}

MidFrames == {Frame(200, l \cup r) : l \in MidLeft, r \in MidRight}

\* A left lane seen in rows 4 and 0, a row of minpix .. DenseMax pixels in
\* row 1 inside the left window, a pixel of row 0 that only a window recentred
\* on that row reaches, and a right lane out of reach of all of them; and a
\* right lane with such a row, and a pixel of row 0 that a window recentred
\* on that row no longer reaches.
DenseFrames ==
    {Frame(400, {<<20, 4>>, <<20, 0>>, <<140, 0>>} \cup DenseRow(99, n)
                \cup Line(300, q, {0, 4, 8})) :
        n \in minpix .. DenseMax, q \in {0, 1}}
    \cup
    {Frame(200, Line(20, 1, {0, 2, 4}) \cup {<<120, 4>>, <<120, 0>>, <<50, 0>>}
                \cup DenseRow(199, n)) :
        n \in minpix .. DenseMax}

WideFrames ==
    {Frame(1280, Line(500 + d, q, {0, 4, 8}) \cup Line(780 + d, q, {0, 4, 8})) :
        d \in Shifts, q \in {0, 1}}

\* Frames whose height is not a multiple of nwindows: a parabola or a
\* vertical line with a pixel in each of four rows.
Heights == {11, 13}

OddFrames ==
    {[W |-> 160, H |-> h, on |-> Line(10, q, {0, h \div 2, h - 3, h - 1})] :
        h \in Heights, q \in {0, 1}}

Frames == NarrowFrames \cup MidFrames \cup DenseFrames \cup WideFrames
          \cup OddFrames

\* detectLane's outcomes on the frames of the model at a first iteration,
\* tabulated once; elsewhere, computed.
ColdStart == [image \in Frames |-> detectLane(image, NoFit, NoFit)]

Outcomes(image, lfit, rfit) ==
    IF FirstIteration(lfit, rfit) /\ image \in Frames THEN ColdStart[image]
    ELSE detectLane(image, lfit, rfit)

----------------------------------------------------------------------------
(* The notebook's state and its two operations.                            *)

\* left_fit = [0,0,0]; right_fit = [0,0,0]
Init ==
    /\ left_fit = NoFit
    /\ right_fit = NoFit
    /\ result = [kind |-> "start"]
    /\ specMode = "COLD"
    /\ lastGood = << >>
    /\ owner = 0
    /\ solo = [s \in Sessions |-> <<NoFit, NoFit>>]

\* A caller starts a new sequence: the cell before each run sets both
\* module-level variables to [0,0,0].
Reset(s) ==
    /\ left_fit' = NoFit
    /\ right_fit' = NoFit
    /\ result' = [kind |-> "reset", session |-> s]
    /\ specMode' = "COLD"
    /\ lastGood' = << >>
    /\ owner' = s
    /\ solo' = [solo EXCEPT ![s] = <<NoFit, NoFit>>]

\* process_image(img) called for session s, image being the thresholded,
\* warped frame it hands to detectLane.  The tuple assignment to the globals
\* happens only when detectLane returns.
ProcessImage(s, image) ==
    \E shared \in {Outcomes(image, left_fit, right_fit)} :
    \E alone \in {Outcomes(image, solo[s][1], solo[s][2])} :
        \E out \in shared :
        \E aout \in (IF alone = shared THEN {out} ELSE alone) :
          /\ left_fit' = IF out.status = "returned" THEN out.left_fit ELSE left_fit
          /\ right_fit' = IF out.status = "returned" THEN out.right_fit ELSE right_fit
          /\ result' = [kind |-> "frame", session |-> s, image |-> image, out |-> out,
                        alone |-> aout,
                        modeBefore |-> specMode,
                        callBefore |-> IF result.kind = "frame"
                                       THEN result.out.status ELSE result.kind,
                        fitBefore |-> <<left_fit, right_fit>>,
                        ownerBefore |-> owner]
          /\ specMode' = IF out.fit.kind = "ok" THEN "WARM" ELSE "COLD"
          /\ lastGood' = IF out.fit.kind = "ok"
                         THEN <<out.fit.left_coef, out.fit.right_coef>>
                         ELSE lastGood
          /\ owner' = IF out.status = "returned" THEN s ELSE owner
          /\ solo' = [solo EXCEPT ![s] =
                        IF aout.status = "returned"
                        THEN <<aout.left_fit, aout.right_fit>> ELSE @]

Next ==
    \/ \E s \in Sessions : Reset(s)
    \/ \E s \in Sessions : \E image \in Frames : ProcessImage(s, image)

Spec == Init /\ [][Next]_vars

----------------------------------------------------------------------------
(* searchAroundPoly on its own: the warm-start search applied to a frame   *)
(* and a prior fit pair, as detectLane calls it when the pair it is given  *)
(* is not ([0,0,0], [0,0,0]).                                              *)

\* Prior fits: the lines x = 20 and x = 150 and the parabolas x = y^2 + 20
\* and x = y^2 + 120.
PriorLeft == {<<RInt(0), RInt(0), RInt(20)>>, <<RInt(1), RInt(0), RInt(20)>>}
PriorRight == {<<RInt(0), RInt(0), RInt(150)>>, <<RInt(1), RInt(0), RInt(120)>>,
               <<RInt(0), RInt(0), RInt(100)>>}

WarmInit ==
    /\ left_fit \in PriorLeft
    /\ right_fit \in PriorRight
    /\ result = [kind |-> "start"]
    /\ specMode = "WARM"
    /\ lastGood = <<left_fit, right_fit>>
    /\ owner = 0
    /\ solo = [s \in Sessions |-> <<NoFit, NoFit>>]

\* leftx, lefty, rightx, righty = searchAroundPoly(image, left_fit, right_fit)
WarmSearch(image) ==
    /\ result' = [kind |-> "search", image |-> image,
                  out |-> searchAroundPoly(image, left_fit, right_fit)]
    /\ UNCHANGED <<left_fit, right_fit, specMode, lastGood, owner, solo>>

WarmNext == \E image \in Frames : WarmSearch(image)

WarmSpec == WarmInit /\ [][WarmNext]_vars

----------------------------------------------------------------------------
(* The claims.  specMode follows the design's machine: COLD at the start   *)
(* and after a reset, WARM after a frame whose two fits succeed, COLD      *)
(* after a frame whose fit fails.  lastGood is the fit pair of the last    *)
(* frame whose two fits succeeded since the last reset.                    *)

IsFrame == result.kind = "frame"

Windows == result.out.search.windows

\* The x of the fitted curves in the bottom row of the frame of result.
BottomX(coef) == PolyVal(coef, RInt(result.image.H - 1))

\* C1: every frame is searched in the mode the {COLD, WARM} machine is in:
\* cold-start exactly when there is no prior fit (first frame, after a reset,
\* after a fit failure), warm-start after a frame whose fit succeeded.
\* (Stated for the frames that follow a reset or a frame that returned.)
C1_ModeFollowsMachine ==
    (IsFrame /\ result.callBefore # "raised")
    => result.out.mode = result.modeBefore

\* C2: after a frame that returns with both fits succeeded, the stored pair
\* is the pair of pixel-space coefficients fitted from that frame.
C2_StoredFitIsFrameFit ==
    (IsFrame /\ result.out.status = "returned" /\ result.out.fit.kind = "ok")
    => /\ left_fit = result.out.fit.left_coef
       /\ right_fit = result.out.fit.right_coef

\* C3: a frame whose search finds no pixel for a side while a prior valid fit
\* exists leaves the stored pair unchanged and still returns, with the
\* geometry of the prior valid fit.  (Stated for a prior fit of two proper
\* curves, whose frame returned.)
C3_EmptySideReusesPriorFit ==
    (/\ IsFrame
     /\ result.out.search.kind = "ok"
     /\ (result.out.search.left = {} \/ result.out.search.right = {})
     /\ lastGood # << >>
     /\ lastGood[1][1] # RInt(0)
     /\ lastGood[2][1] # RInt(0))
    => /\ <<left_fit, right_fit>> = result.fitBefore
       /\ result.out.status = "returned"
       /\ result.out.offset = <<Offset(BottomX(lastGood[1]), BottomX(lastGood[2]))>>

\* C4: a frame without lane pixels that meets no prior fit ends in a reported
\* failure, not in a raised exception, produces no geometry and leaves the
\* tracker COLD.
C4_FirstEmptyFrameReportsFailure ==
    (IsFrame /\ result.image.on = {} /\ lastGood = << >>)
    => /\ result.out.status # "raised"
       /\ result.out.offset = << >>
       /\ specMode = "COLD"
       /\ FirstIteration(left_fit, right_fit)

\* C5: a frame of one session gets the outcome it would get from a tracker of
\* its own, and meets a prior-fit state that no other session has assigned.
C5_SessionsIsolated ==
    IsFrame => /\ result.out = result.alone
               /\ result.ownerBefore \in {0, result.session}

\* C6: the frame after a frame whose two fits succeeded with coefficients
\* (0, 0, 0) is searched in WARM mode.
C6_ZeroFitKeepsWarm ==
    [][(/\ IsFrame
        /\ result.out.fit.kind = "ok"
        /\ result.out.fit.left_coef = NoFit
        /\ result.out.fit.right_coef = NoFit
        /\ result'.kind = "frame")
       => result'.out.mode = "WARM"]_vars

\* C7: a side's fit yields coefficients exactly when its pixel set has at
\* least 3 distinct y-values; with fewer it ends in an error.
C7_FitNeedsThreeRows ==
    (IsFrame /\ result.out.search.kind = "ok")
    => /\ result.out.fit.left_kind # "not called"
          => (result.out.fit.left_kind = "TypeError"
                <=> Cardinality(DistinctY(result.out.search.left)) < 3)
       /\ result.out.fit.right_kind # "not called"
          => (result.out.fit.right_kind = "TypeError"
                <=> Cardinality(DistinctY(result.out.search.right)) < 3)

\* C8: with a zero leading coefficient in the left or the right metric fit
\* the curvature computation returns a value and the frame returns.
C8_StraightLineCurvatureReturns ==
    (/\ IsFrame
     /\ result.out.fit.kind = "ok"
     /\ (result.out.fit.left_fit_rw[1] = RInt(0)
         \/ result.out.fit.right_fit_rw[1] = RInt(0)))
    => result.out.status = "returned"

\* C9: the offset of a returned frame of width W is
\* (W/2 - (xl + xr)/2) * xm_per_pix, xl and xr the fitted x of the bottom row.
C9_OffsetFromFrameCentre ==
    (IsFrame /\ result.out.status = "returned" /\ result.out.fit.kind = "ok")
    => result.out.offset =
         << RMul(RSub(Rat(result.image.W, 2),
                      RMul(RAdd(BottomX(result.out.fit.left_coef),
                                BottomX(result.out.fit.right_coef)), Rat(1, 2))),
                 xm_per_pix) >>

\* The mean x of a window's pixels, exactly.
ExactMeanX(good) == Rat(Moment(good, 1, 0), Cardinality(good))

\* The x-centres of window w + 1 are those window w has chosen, and the
\* first ones are the histogram's peaks.
CentresChain ==
    /\ Windows[1].leftx_current = result.out.search.leftx_base
    /\ Windows[1].rightx_current = result.out.search.rightx_base
    /\ \A w \in 1 .. nwindows - 1 :
         /\ Windows[w + 1].leftx_current = Windows[w].leftx_next
         /\ Windows[w + 1].rightx_current = Windows[w].rightx_next

WithinMargin(p, fit) ==
    LET centre == PolyVal(fit, RInt(p[2]))
    IN  /\ RLess(RInt(p[1]), RAdd(centre, RInt(poly_margin)))
        /\ RLess(RSub(centre, RInt(poly_margin)), RInt(p[1]))

\* C11: the warm-start search of a frame with a prior fit pair gives each
\* side exactly the "on" pixels of the frame passed to it that lie within
\* the margin (60) of that side's prior curve, a pixel near both curves
\* going to both sides.
C11_WarmSearchUsesPassedFrame ==
    result.kind = "search" =>
        /\ result.out.kind = "ok"
        /\ result.out.left = {p \in result.image.on : WithinMargin(p, left_fit)}
        /\ result.out.right = {p \in result.image.on : WithinMargin(p, right_fit)}

\* The number of "on" pixels of column x in the bottom half of the frame of
\* result (the rows from H // 2 down).
ColumnSum(x) ==
    Cardinality({p \in result.image.on :
                    p[1] = x /\ p[2] >= result.image.H \div 2})

\* base is the lowest column of cols whose sum is the maximum over cols.
FirstMaximum(base, cols) ==
    /\ base \in cols
    /\ \A x \in cols : /\ ColumnSum(x) <= ColumnSum(base)
                       /\ x < base => ColumnSum(x) < ColumnSum(base)

\* C12: the cold-start search starts its left windows at the lowest column
\* of [0, W/2) with the maximal bottom-half column sum and its right windows
\* at the lowest such column of [W/2, W); so left < W/2 <= right, and an
\* all-zero frame gives 0 and W/2.
C12_BasesAreFirstMaxima ==
    (IsFrame /\ result.out.mode = "COLD") =>
        LET W == result.image.W
            midpoint == W \div 2
            leftx_base == result.out.search.leftx_base
            rightx_base == result.out.search.rightx_base
        IN  /\ FirstMaximum(leftx_base, 0 .. midpoint - 1)
            /\ FirstMaximum(rightx_base, midpoint .. W - 1)
            /\ leftx_base < midpoint /\ midpoint <= rightx_base
            /\ result.image.on = {} => leftx_base = 0 /\ rightx_base = midpoint

\* C12's case: two columns of the left half share the maximal sum, which is
\* not 0, and the search started at the lower of them.
C12_Witness ==
    /\ IsFrame /\ result.out.mode = "COLD"
    /\ \E x \in 0 .. result.image.W \div 2 - 1 :
          /\ x > result.out.search.leftx_base
          /\ ColumnSum(x) > 0
          /\ ColumnSum(x) = ColumnSum(result.out.search.leftx_base)

\* The rows of the band of window w (1 is the bottom band).
Band(w) == Windows[w].win_y_low .. Windows[w].win_y_high - 1

\* C13: the nwindows bands of the cold-start search partition the rows
\* [0, H) of the frame, whatever H is: they follow each other from the bottom
\* row up, every row lies in exactly one band, and a side's pixel set is
\* what its windows collected, band by band.
C13_BandsPartitionHeight ==
    (IsFrame /\ result.out.mode = "COLD") =>
        /\ Windows[1].win_y_high = result.image.H
        /\ \A w \in 1 .. nwindows - 1 :
              Windows[w + 1].win_y_high = Windows[w].win_y_low
        /\ \A y \in 0 .. result.image.H - 1 :
              Cardinality({w \in 1 .. nwindows : y \in Band(w)}) = 1
        /\ result.out.search.left =
              UNION {Windows[w].good_left_inds : w \in 1 .. nwindows}
        /\ result.out.search.right =
              UNION {Windows[w].good_right_inds : w \in 1 .. nwindows}

====
